---- MODULE Spec2Model ----
(***************************************************************************)
(* Model of wideq/devices/robotking.py: the RobotKingDevice controller     *)
(* (poll, reset_status, wake_up) and the RobotKingStatus snapshot          *)
(* (memoized run-state / error resolution and the derived properties).     *)
(*                                                                         *)
(* Python values are represented as follows.                               *)
(*   str            a TLA+ string ("x" in y is Contains(x, y))             *)
(*   None           the string None, which no payload or table contains    *)
(*   dict           a function whose DOMAIN is the set of keys present     *)
(*   X | None       for the poll collaborator's result: {} or {payload}    *)
(* Every method of the snapshot that may fill a memo or record a feature   *)
(* is an operator returning [val |-> result, st |-> snapshot afterwards].  *)
(***************************************************************************)
EXTENDS Naturals, Sequences, FiniteSets, TLC

VARIABLES
    status,       \* Device._status: the stored RobotKingStatus
    stand_by,     \* Device._stand_by
    pollPending,  \* poll() invocations suspended in "await self._device_poll"
    wakePending,  \* wake_up() invocations suspended in "await self.set"
    sent,         \* commands the command collaborator has accepted
    supported,    \* command pairs the device's capability metadata supports
    ret           \* the last step: operation, collaborator input, result

vars == <<status, stand_by, pollPending, wakePending, sent, supported, ret>>

(***************************************************************************)
(* Bounds of the model.                                                    *)
(***************************************************************************)
MaxPoll == 1      \* poll() invocations in flight at once
MaxWake == 2      \* wake_up() invocations in flight at once
MaxLookups == 2   \* the lookup counters saturate here

(***************************************************************************)
(* Vocabulary tables (robotking.py:12-23) and the NONE option.             *)
(***************************************************************************)
STATE_ROBOT_KING_POWER_OFF == "STATE_POWER_OFF"
STATE_ROBOT_KING_END == <<"STATE_END", "STATE_COMPLETE">>
STATE_ROBOT_KING_ERROR_OFF == "OFF"
STATE_ROBOT_KING_ERROR_NO_ERROR ==
    <<"ERROR_NOERROR", "ERROR_NOERROR_TITLE", "No Error", "No_Error">>
POWER_STATUS_KEY == <<"State", "state">>
ERROR_KEY == <<"Error", "error">>
\* The wake-up candidates with the last one first.
CMD_WAKE_UP_last_first == <<<<"WakeUp", "None">>, <<"Config", "Wakeup">>, <<"Set", "Wakeup">>>>
CMD_WAKE_UP == <<<<"Config", "Wakeup">>, <<"Set", "Wakeup">>, <<"WakeUp", "None">>>>
StateOptions_NONE == "-"

None == "None"

\* Python truthiness of a str | None value.
Falsy(v) == v = None \/ v = ""

\* Python's "sub in s" for strings.
Contains(sub, s) ==
    \E i \in 1..(Len(s) + 1) :
        /\ i + Len(sub) - 1 <= Len(s)
        /\ SubSeq(s, i, i + Len(sub) - 1) = sub

\* Python's "x in list".
InList(x, l) == \E i \in 1..Len(l) : l[i] = x

\* dict[k] = v
Put(d, k, v) == [x \in (DOMAIN d) \cup {k} |-> IF x = k THEN v ELSE d[x]]

EmptyDict == [x \in {} |-> ""]

(***************************************************************************)
(* Device metadata: the enumeration table of the run-state field and the   *)
(* reference table of the error field (code -> title).                     *)
(***************************************************************************)
EnumCodes == {"0", "1", "2", "3"}
EnumTable ==
    [c \in EnumCodes |->
        CASE c = "0" -> "STATE_POWER_OFF"
          [] c = "1" -> "STATE_INITIAL"
          [] c = "2" -> "STATE_END"
          [] c = "3" -> "STATE_COMPLETE"]

RefCodes == {"0", "1", "2", "3", "4", "5", "6", "7"}
RefTable ==
    [c \in RefCodes |->
        CASE c = "0" -> "ERROR_NOERROR"
          [] c = "1" -> "ERROR_NOERROR_TITLE"
          [] c = "2" -> "No Error"
          [] c = "3" -> "No_Error"
          [] c = "4" -> "OFF"
          [] c = "5" -> "ERROR_BRUSH"
          [] c = "6" -> "OFFLINE"
          [] c = "7" -> ""]

\* DeviceStatus: the key under which the payload store holds the field that
\* a list of key aliases names: the first alias present, None when none is.
get_data_key(data, keys) ==
    LET present == { i \in 1..Len(keys) : keys[i] \in DOMAIN data }
    IN  IF present = {} THEN None
        ELSE keys[CHOOSE i \in present : \A j \in present : i <= j]

\* DeviceStatus.lookup_enum: the field's value resolved through the
\* enumeration table when it is an enum code, None when the field is absent
\* under every alias.
lookup_enum(data, keys) ==
    LET key == get_data_key(data, keys)
    IN  IF key = None THEN None
        ELSE IF data[key] \in EnumCodes THEN EnumTable[data[key]]
        ELSE data[key]

\* DeviceStatus.lookup_reference(..., ref_key="title"): the title of the
\* record the field's code refers to, None when there is none.
lookup_reference(data, keys) ==
    LET key == get_data_key(data, keys)
    IN  IF key = None THEN None
        ELSE IF data[key] \in RefCodes THEN RefTable[data[key]]
        ELSE None

\* Device._get_runstate_key: the raw value that resolves to a run-state name.
get_runstate_key(name) ==
    IF \E c \in EnumCodes : EnumTable[c] = name
    THEN CHOOSE c \in EnumCodes : EnumTable[c] = name
    ELSE name

(***************************************************************************)
(* RobotKingStatus                                                         *)
(***************************************************************************)
Bump(n) == IF n < MaxLookups THEN n + 1 ELSE n

\* RobotKingStatus.__init__(device, data): data is {} (None) or {payload}.
RobotKingStatus(data) ==
    [ data      |-> IF data = {} THEN EmptyDict ELSE CHOOSE p \in data : TRUE,
      run_state |-> None,
      error     |-> None,
      features  |-> EmptyDict,
      nState    |-> 0,      \* run-state lookups since construction / update_status
      nError    |-> 0 ]     \* error lookups since construction

\* DeviceStatus._update_feature(key, value): record and return the value.
update_feature(s, key, value) ==
    [val |-> value, st |-> [s EXCEPT !.features = Put(s.features, key, value)]]

\* DeviceStatus.update_status(key, value): write the field that the list of
\* key aliases names (under the alias the payload store holds, under the
\* first alias when it holds none), report a change.
base_update_status(s, keys, value) ==
    LET held == get_data_key(s.data, keys)
        key  == IF held = None THEN keys[1] ELSE held
    IN  [val |-> (held = None) \/ (s.data[key] # value),
         st  |-> [s EXCEPT !.data = Put(s.data, key, value), !.nState = 0]]

\* _get_run_state that looks the field up without keeping the result.
get_run_state_no_memo(s) ==
    LET state == lookup_enum(s.data, POWER_STATUS_KEY)
        new   == IF Falsy(state) THEN STATE_ROBOT_KING_POWER_OFF ELSE state
    IN  [val |-> new, st |-> [s EXCEPT !.nState = Bump(s.nState)]]

get_run_state(s) ==
    IF Falsy(s.run_state)
    THEN LET state == lookup_enum(s.data, POWER_STATUS_KEY)
             new   == IF Falsy(state) THEN STATE_ROBOT_KING_POWER_OFF ELSE state
         IN  [val |-> new,
              st  |-> [s EXCEPT !.run_state = new, !.nState = Bump(s.nState)]]
    ELSE [val |-> s.run_state, st |-> s]

\* _get_error that looks the field up without keeping the result.
get_error_no_memo(s) ==
    LET error == lookup_reference(s.data, ERROR_KEY)
        new   == IF Falsy(error) THEN STATE_ROBOT_KING_ERROR_OFF ELSE error
    IN  [val |-> new, st |-> [s EXCEPT !.nError = Bump(s.nError)]]

get_error(s) ==
    IF Falsy(s.error)
    THEN LET error == lookup_reference(s.data, ERROR_KEY)
             new   == IF Falsy(error) THEN STATE_ROBOT_KING_ERROR_OFF ELSE error
         IN  [val |-> new,
              st  |-> [s EXCEPT !.error = new, !.nError = Bump(s.nError)]]
    ELSE [val |-> s.error, st |-> s]

\* update_status with the test of the base result inverted.
update_status_inverted(s, key, value) ==
    LET base == base_update_status(s, key, value)
    IN  IF base.val
        THEN [val |-> FALSE, st |-> base.st]
        ELSE [val |-> TRUE, st |-> [base.st EXCEPT !.run_state = None]]

\* update_status that clears the error memo along with the run-state memo.
update_status_clear_error(s, key, value) ==
    LET base == base_update_status(s, key, value)
    IN  IF ~base.val
        THEN [val |-> FALSE, st |-> base.st]
        ELSE [val |-> TRUE,
              st  |-> [base.st EXCEPT !.run_state = None, !.error = None]]

\* update_status that leaves the run-state memo in place.
update_status_keep_memo(s, key, value) ==
    LET base == base_update_status(s, key, value)
    IN  [val |-> base.val, st |-> base.st]

update_status(s, key, value) ==
    LET base == base_update_status(s, key, value)
    IN  IF ~base.val
        THEN [val |-> FALSE, st |-> base.st]
        ELSE [val |-> TRUE, st |-> [base.st EXCEPT !.run_state = None]]

\* is_on that compares the run-state with the sentinel for equality.
is_on_equal(s) ==
    LET r == get_run_state(s)
    IN  [val |-> r.val # STATE_ROBOT_KING_POWER_OFF, st |-> r.st]

is_on(s) ==
    LET r == get_run_state(s)
    IN  [val |-> ~Contains(STATE_ROBOT_KING_POWER_OFF, r.val), st |-> r.st]

\* is_run_completed without the POWER_OFF alternative.
is_run_completed_no_off(s) ==
    LET r == get_run_state(s)
    IN  [val |-> \E i \in 1..Len(STATE_ROBOT_KING_END) :
                     Contains(STATE_ROBOT_KING_END[i], r.val),
         st  |-> r.st]

is_run_completed(s) ==
    LET r == get_run_state(s)
    IN  [val |-> \/ \E i \in 1..Len(STATE_ROBOT_KING_END) :
                        Contains(STATE_ROBOT_KING_END[i], r.val)
                 \/ Contains(STATE_ROBOT_KING_POWER_OFF, r.val),
         st  |-> r.st]

\* is_error that matches the sentinels as substrings of the error.
is_error_substring(s) ==
    LET on == is_on(s)
    IN  IF ~on.val
        THEN [val |-> FALSE, st |-> on.st]
        ELSE LET e == get_error(on.st)
             IN  [val |-> ~(\/ \E i \in 1..Len(STATE_ROBOT_KING_ERROR_NO_ERROR) :
                                  Contains(STATE_ROBOT_KING_ERROR_NO_ERROR[i], e.val)
                            \/ Contains(STATE_ROBOT_KING_ERROR_OFF, e.val)),
                  st  |-> e.st]

\* is_error without the "if not self.is_on: return False" gate.
is_error_no_gate(s) ==
    LET e == get_error(s)
    IN  [val |-> ~(\/ InList(e.val, STATE_ROBOT_KING_ERROR_NO_ERROR)
                   \/ e.val = STATE_ROBOT_KING_ERROR_OFF),
         st  |-> e.st]

is_error(s) ==
    LET on == is_on(s)
    IN  IF ~on.val
        THEN [val |-> FALSE, st |-> on.st]
        ELSE LET e == get_error(on.st)
             IN  [val |-> ~(\/ InList(e.val, STATE_ROBOT_KING_ERROR_NO_ERROR)
                            \/ e.val = STATE_ROBOT_KING_ERROR_OFF),
                  st  |-> e.st]

\* run_state that does not replace the run-state of an off device by NONE.
run_state_no_none(s) ==
    LET r == get_run_state(s)
    IN  update_feature(r.st, "RUN_STATE", r.val)

run_state(s) ==
    LET r == get_run_state(s)
        v == IF Contains(STATE_ROBOT_KING_POWER_OFF, r.val)
             THEN StateOptions_NONE ELSE r.val
    IN  update_feature(r.st, "RUN_STATE", v)

error_msg(s) ==
    LET e == is_error(s)
    IN  IF ~e.val
        THEN update_feature(e.st, "ERROR_MSG", StateOptions_NONE)
        ELSE LET g == get_error(e.st)
             IN  update_feature(g.st, "ERROR_MSG", g.val)

update_features(s) ==
    LET r == run_state(s)
        e == error_msg(r.st)
    IN  [val |-> None, st |-> e.st]

\* Python's str(bool), for the ret record.
Str(b) == IF b THEN "True" ELSE "False"

(***************************************************************************)
(* Inputs.                                                                 *)
(***************************************************************************)
\* The ways a payload may carry one field: not at all, under the first alias
\* with a value of vals, or under the second alias with a value of altVals.
FieldChoices(keys, vals, altVals) ==
    {{}} \cup { {<<keys[1], v>>} : v \in vals }
         \cup { {<<keys[2], v>>} : v \in altVals }

\* The dict of a set of <<key, value>> items with distinct keys.
DictOf(items) ==
    [k \in { it[1] : it \in items } |->
        (CHOOSE it \in items : it[1] = k)[2]]

\* All dicts made of one choice for the run-state field and one for the
\* error field.
PayloadsOver(stateChoices, errorChoices) ==
    { DictOf(sc \cup ec) : sc \in stateChoices, ec \in errorChoices }

\* What the poll collaborator may return to a Controller: nothing, or a payload.
PollStateVals == {"0", "2"}
PollStateAltVals == {"2"}
PollErrorVals == {"0", "5"}
PollErrorAltVals == {"5"}
PollResults ==
    {{}} \cup { {p} : p \in PayloadsOver(
                    FieldChoices(POWER_STATUS_KEY, PollStateVals, PollStateAltVals),
                    FieldChoices(ERROR_KEY, PollErrorVals, PollErrorAltVals)) }

\* Patches applied through update_status.
Patches == { <<POWER_STATUS_KEY, "0">>, <<ERROR_KEY, "5">> }

\* The vocabulary a single snapshot is exercised on: for the run-state field
\* the empty string, the four enum codes and two vendor strings that embed a
\* sentinel; for the error field every reference code and an unknown code.
AllStateVals == EnumCodes \cup {"", "@RK_STATE_POWER_OFF_W", "@RK_STATE_END_W"}
AllErrorVals == RefCodes \cup {"9"}
\* Under the second alias a payload carries the run-state code of
\* STATE_INITIAL or the error code of ERROR_BRUSH.
AllStateAltVals == {"1"}
AllErrorAltVals == {"5"}
AllPayloads ==
    PayloadsOver(FieldChoices(POWER_STATUS_KEY, AllStateVals, AllStateAltVals),
                 FieldChoices(ERROR_KEY, AllErrorVals, AllErrorAltVals))
\* The patches a single snapshot is exercised on: run-state values that
\* resolve to off, on, terminal and falsy; error codes of a NO-ERROR
\* sentinel, of the OFF sentinel and of an active error.
PatchStateVals == {"0", "1", "2", "", "@RK_STATE_END_W"}
PatchErrorVals == {"0", "4", "5"}
AllPatches ==
    { <<POWER_STATUS_KEY, v>> : v \in PatchStateVals }
        \cup { <<ERROR_KEY, v>> : v \in PatchErrorVals }

NoArg == {}

Ret(op, arg, val) == [op |-> op, arg |-> arg, val |-> val]

(***************************************************************************)
(* RobotKingDevice                                                         *)
(***************************************************************************)
\* Device._stand_by as construction leaves it.
Device_stand_by == TRUE

\* The capability metadata of one device: it supports Set/Wakeup and
\* WakeUp/None, not Config/Wakeup.
DeviceSupported == {CMD_WAKE_UP[2], CMD_WAKE_UP[3]}

\* Every capability metadata over the groups and commands of the candidates.
SupportedSets == SUBSET ({"Config", "Set", "WakeUp"} \X {"Wakeup", None})

\* Device._get_cmd_keys(cmds): the first pair of the ordered list that the
\* capability metadata supports, with no payload value.
RECURSIVE first_supported(_, _, _)
first_supported(cmds, sup, i) ==
    IF i > Len(cmds) THEN 0
    ELSE IF cmds[i] \in sup THEN i
    ELSE first_supported(cmds, sup, i + 1)

get_cmd_keys(cmds, sup) ==
    LET i == first_supported(cmds, sup, 1)
    IN  <<cmds[i][1], cmds[i][2], None>>

\* The arguments of "self.set(keys[0], keys[1], value=keys[2])"
set_call(keys) == [ctrl |-> keys[1], cmd |-> keys[2], value |-> keys[3]]

\* Device.__init__(client, device_info, RobotKingStatus(self))
InitDevice ==
    /\ status = RobotKingStatus({})
    /\ stand_by = Device_stand_by
    /\ pollPending = 0
    /\ wakePending = 0
    /\ sent = 0
    /\ ret = Ret("init", NoArg, None)

Init ==
    /\ InitDevice
    /\ supported = DeviceSupported

\* reset_status that empties the payload store of the snapshot it holds.
reset_status_same_snapshot ==
    /\ status' = [status EXCEPT !.data = EmptyDict]
    /\ ret' = Ret("reset_status", NoArg, "status")
    /\ UNCHANGED <<stand_by, pollPending, wakePending, sent, supported>>

\* RobotKingDevice.reset_status
reset_status ==
    /\ status' = RobotKingStatus({})
    /\ ret' = Ret("reset_status", NoArg, "status")
    /\ UNCHANGED <<stand_by, pollPending, wakePending, sent, supported>>

\* poll that drops the stored snapshot before it awaits the collaborator.
poll_call_reset ==
    /\ pollPending < MaxPoll
    /\ pollPending' = pollPending + 1
    /\ status' = RobotKingStatus({})
    /\ ret' = Ret("poll_call", NoArg, None)
    /\ UNCHANGED <<stand_by, wakePending, sent, supported>>

\* RobotKingDevice.poll up to "await self._device_poll(...)"
poll_call ==
    /\ pollPending < MaxPoll
    /\ pollPending' = pollPending + 1
    /\ ret' = Ret("poll_call", NoArg, None)
    /\ UNCHANGED <<status, stand_by, wakePending, sent, supported>>

\* RobotKingDevice.poll cancelled in "await self._device_poll(...)": the
\* CancelledError leaves the coroutine at the await.
poll_cancel ==
    /\ pollPending > 0
    /\ pollPending' = pollPending - 1
    /\ ret' = Ret("poll_cancel", NoArg, "CancelledError")
    /\ UNCHANGED <<status, stand_by, wakePending, sent, supported>>

\* poll that replaces the snapshot whatever the collaborator returned.
poll_return_replace ==
    /\ pollPending > 0
    /\ pollPending' = pollPending - 1
    /\ \E res \in PollResults :
         /\ status' = RobotKingStatus(IF res = {EmptyDict} THEN {} ELSE res)
         /\ ret' = Ret("poll_return", res, IF res = {} THEN "None" ELSE "status")
    /\ UNCHANGED <<stand_by, wakePending, sent, supported>>

\* poll that writes the payload into the snapshot it already holds.
poll_return_merge ==
    /\ pollPending > 0
    /\ pollPending' = pollPending - 1
    /\ \E res \in PollResults :
         IF res = {} \/ res = {EmptyDict}
         THEN /\ ret' = Ret("poll_return", res, "None")
              /\ UNCHANGED status
         ELSE /\ status' = [status EXCEPT !.data = RobotKingStatus(res).data]
              /\ ret' = Ret("poll_return", res, "status")
    /\ UNCHANGED <<stand_by, wakePending, sent, supported>>

\* RobotKingDevice.poll from the collaborator's answer res to its return
poll_return ==
    /\ pollPending > 0
    /\ pollPending' = pollPending - 1
    /\ \E res \in PollResults :
         IF res = {} \/ res = {EmptyDict}      \* if not res: return None
         THEN /\ ret' = Ret("poll_return", res, "None")
              /\ UNCHANGED status
         ELSE /\ status' = RobotKingStatus(res)
              /\ ret' = Ret("poll_return", res, "status")
    /\ UNCHANGED <<stand_by, wakePending, sent, supported>>

\* wake_up without the "if not self._stand_by: raise" gate.
wake_up_call_no_gate ==
    LET keys == get_cmd_keys(CMD_WAKE_UP, supported) IN
    /\ wakePending < MaxWake
    /\ wakePending' = wakePending + 1
    /\ ret' = Ret("wake_up_call", {set_call(keys)}, None)
    /\ UNCHANGED <<status, stand_by, pollPending, sent, supported>>

\* RobotKingDevice.wake_up up to "await self.set(...)", or its raise
wake_up_call ==
    IF ~stand_by
    THEN /\ ret' = Ret("wake_up_call", NoArg, "InvalidDeviceStatus")
         /\ UNCHANGED <<status, stand_by, pollPending, wakePending, sent, supported>>
    ELSE LET keys == get_cmd_keys(CMD_WAKE_UP, supported) IN
         /\ wakePending < MaxWake
         /\ wakePending' = wakePending + 1
         /\ ret' = Ret("wake_up_call", {set_call(keys)}, None)
         /\ UNCHANGED <<status, stand_by, pollPending, sent, supported>>

\* Device._update_status(key, value) on the stored snapshot
device_update_status(s, key, value) == update_status(s, key, value).st

\* RobotKingDevice.wake_up after "await self.set(...)" has succeeded
wake_up_return ==
    LET keys == get_cmd_keys(CMD_WAKE_UP, supported) IN
    /\ wakePending > 0
    /\ wakePending' = wakePending - 1
    /\ sent' = sent + 1
    /\ stand_by' = FALSE
    /\ status' = device_update_status(status, POWER_STATUS_KEY,
                                      get_runstate_key("STATE_INITIAL"))
    /\ ret' = Ret("wake_up_return", {set_call(keys)}, "ok")
    /\ UNCHANGED <<pollPending, supported>>

\* wake_up that has cleared the stand_by flag before its command failed.
wake_up_fail_flag_cleared ==
    /\ wakePending > 0
    /\ wakePending' = wakePending - 1
    /\ stand_by' = FALSE
    /\ ret' = Ret("wake_up_fail", NoArg, "CommandError")
    /\ UNCHANGED <<status, pollPending, sent, supported>>

\* RobotKingDevice.wake_up when "await self.set(...)" raises
wake_up_fail ==
    /\ wakePending > 0
    /\ wakePending' = wakePending - 1
    /\ ret' = Ret("wake_up_fail", NoArg, "CommandError")
    /\ UNCHANGED <<status, stand_by, pollPending, sent, supported>>

\* status.update_status(key, value) called on the stored snapshot
UpdateStatus ==
    \E kv \in Patches :
        LET r == update_status(status, kv[1], kv[2])
        IN  /\ status' = r.st
            /\ ret' = Ret("update_status", NoArg, Str(r.val))
            /\ UNCHANGED <<stand_by, pollPending, wakePending, sent, supported>>

\* status.update_status(key, value) over the whole vocabulary
UpdateStatusAll ==
    \E kv \in AllPatches :
        LET r == update_status(status, kv[1], kv[2])
        IN  /\ status' = r.st
            /\ ret' = Ret("update_status", NoArg, Str(r.val))
            /\ UNCHANGED <<stand_by, pollPending, wakePending, sent, supported>>

\* Property reads on the stored snapshot
ReadIsOn ==
    /\ status' = is_on(status).st
    /\ ret' = Ret("is_on", NoArg, Str(is_on(status).val))
    /\ UNCHANGED <<stand_by, pollPending, wakePending, sent, supported>>

ReadIsRunCompleted ==
    /\ status' = is_run_completed(status).st
    /\ ret' = Ret("is_run_completed", NoArg, Str(is_run_completed(status).val))
    /\ UNCHANGED <<stand_by, pollPending, wakePending, sent, supported>>

ReadIsError ==
    /\ status' = is_error(status).st
    /\ ret' = Ret("is_error", NoArg, Str(is_error(status).val))
    /\ UNCHANGED <<stand_by, pollPending, wakePending, sent, supported>>

ReadRunState ==
    /\ status' = run_state(status).st
    /\ ret' = Ret("run_state", NoArg, run_state(status).val)
    /\ UNCHANGED <<stand_by, pollPending, wakePending, sent, supported>>

ReadErrorMsg ==
    /\ status' = error_msg(status).st
    /\ ret' = Ret("error_msg", NoArg, error_msg(status).val)
    /\ UNCHANGED <<stand_by, pollPending, wakePending, sent, supported>>

UpdateFeatures ==
    /\ status' = update_features(status).st
    /\ ret' = Ret("_update_features", NoArg, None)
    /\ UNCHANGED <<stand_by, pollPending, wakePending, sent, supported>>

Reads ==
    \/ ReadIsOn
    \/ ReadIsRunCompleted
    \/ ReadIsError
    \/ ReadRunState
    \/ ReadErrorMsg
    \/ UpdateFeatures

Next ==
    \/ reset_status
    \/ poll_call
    \/ poll_return
    \/ poll_cancel
    \/ wake_up_call
    \/ wake_up_return
    \/ wake_up_fail
    \/ UpdateStatus
    \/ Reads

Spec == Init /\ [][Next]_vars

(***************************************************************************)
(* One snapshot on its own: built from any payload of the vocabulary, then *)
(* read and patched.                                                       *)
(***************************************************************************)
InitStatus ==
    /\ status \in { RobotKingStatus({p}) : p \in AllPayloads }
    /\ stand_by = Device_stand_by
    /\ pollPending = 0
    /\ wakePending = 0
    /\ sent = 0
    /\ supported = DeviceSupported
    /\ ret = Ret("init", NoArg, None)

NextStatus ==
    \/ UpdateStatusAll
    \/ Reads

SpecStatus == InitStatus /\ [][NextStatus]_vars

(***************************************************************************)
(* The device over every capability metadata that supports at least one    *)
(* wake-up candidate: polls, resets and wake-ups.                          *)
(***************************************************************************)
InitCmd ==
    /\ InitDevice
    /\ supported \in { sup \in SupportedSets :
                         \E i \in 1..Len(CMD_WAKE_UP) : CMD_WAKE_UP[i] \in sup }

NextCmd ==
    \/ reset_status
    \/ poll_call
    \/ poll_return
    \/ poll_cancel
    \/ wake_up_call
    \/ wake_up_return
    \/ wake_up_fail

SpecCmd == InitCmd /\ [][NextCmd]_vars

(***************************************************************************)
(* Properties                                                              *)
(***************************************************************************)
\* The run-state a snapshot's payload store resolves to, without the memo.
ResolvedRunState(data) ==
    LET state == lookup_enum(data, POWER_STATUS_KEY)
    IN  IF Falsy(state) THEN STATE_ROBOT_KING_POWER_OFF ELSE state

\* The error a snapshot's payload store resolves to, without the memo.
ResolvedError(data) ==
    LET error == lookup_reference(data, ERROR_KEY)
    IN  IF Falsy(error) THEN STATE_ROBOT_KING_ERROR_OFF ELSE error

\* C1: in every reachable state the stored snapshot that reads is_on == False
\* reads is_error == False and error_msg == NONE, whatever error its payload
\* carries and whatever error is memoized.
C1_OffImpliesNoError ==
    ~is_on(status).val =>
        /\ ~is_error(status).val
        /\ error_msg(status).val = StateOptions_NONE

\* C1 witness: the snapshot is off while an active error is both in its
\* payload and in its error memo.
C1_Witness ==
    /\ ~is_on(status).val
    /\ status.error = "ERROR_BRUSH"
    /\ ResolvedError(status.data) = "ERROR_BRUSH"

\* C2: a wake_up invoked while stand_by is False raises InvalidDeviceStatus,
\* puts no command in flight, and leaves the stand_by flag and the stored
\* snapshot (payload store, memos) as they were.
C2_WakeUpNotStandby ==
    [][(ret'.op = "wake_up_call" /\ ~stand_by) =>
          /\ ret'.val = "InvalidDeviceStatus"
          /\ UNCHANGED <<status, stand_by, wakePending, sent, pollPending>>]_vars

\* C2 witness: a wake_up has just raised InvalidDeviceStatus on a controller
\* that is not in standby.
C2_Witness ==
    /\ ret.op = "wake_up_call"
    /\ ret.val = "InvalidDeviceStatus"
    /\ ~stand_by

\* C3: a wake_up that passed the stand_by gate and whose command succeeded
\* has dispatched exactly one command, has set stand_by to False, and leaves
\* a stored snapshot that reads is_on == True, with no poll in between.
C3_WakeUpTurnsOn ==
    [][ret'.op = "wake_up_return" =>
          /\ sent' = sent + 1
          /\ stand_by' = FALSE
          /\ is_on(status').val]_vars

\* C3 witness: wake_up has returned on a snapshot that had no payload (its
\* store holds the patched field alone) and whose run_state had been read as
\* NONE, so that its memo held the POWER_OFF sentinel.
C3_Witness ==
    /\ ret.op = "wake_up_return"
    /\ DOMAIN status.data = {"State"}
    /\ "RUN_STATE" \in DOMAIN status.features
    /\ status.features["RUN_STATE"] = StateOptions_NONE
    /\ is_on(status).val
    /\ sent = 1

\* C4: a poll whose collaborator returns nothing yields None and leaves the
\* stored snapshot and the stand_by flag as they were.
C4_EmptyPollKeepsSnapshot ==
    [][(ret'.op = "poll_return" /\ ret'.arg = {}) =>
          /\ ret'.val = "None"
          /\ UNCHANGED <<status, stand_by>>]_vars

\* C4 witness: a poll has just yielded None while the stored snapshot holds
\* a payload with a filled run-state memo and a filled error memo.
C4_Witness ==
    /\ ret.op = "poll_return"
    /\ ret.arg = {}
    /\ ret.val = "None"
    /\ DOMAIN status.data # {}
    /\ status.run_state # None
    /\ status.error # None

\* What the five derived properties of a snapshot read.
Derived(s) ==
    [ is_on            |-> is_on(s).val,
      is_run_completed |-> is_run_completed(s).val,
      is_error         |-> is_error(s).val,
      run_state        |-> run_state(s).val,
      error_msg        |-> error_msg(s).val ]

\* What the five derived properties are for a payload, from the resolution
\* of its two fields alone.
DerivedOfPayload(p) ==
    LET rs == ResolvedRunState(p)
        er == ResolvedError(p)
        on == ~Contains(STATE_ROBOT_KING_POWER_OFF, rs)
        ie == on /\ ~InList(er, STATE_ROBOT_KING_ERROR_NO_ERROR)
                 /\ er # STATE_ROBOT_KING_ERROR_OFF
    IN  [ is_on            |-> on,
          is_run_completed |-> \/ ~on
                               \/ \E i \in 1..Len(STATE_ROBOT_KING_END) :
                                     Contains(STATE_ROBOT_KING_END[i], rs),
          is_error         |-> ie,
          run_state        |-> IF on THEN rs ELSE StateOptions_NONE,
          error_msg        |-> IF ie THEN er ELSE StateOptions_NONE ]

ThePayload(res) == CHOOSE p \in res : TRUE

\* C5 as stated: whenever the collaborator returns a payload, poll stores and
\* returns a new snapshot whose derived values are those of the payload alone.
C5_AnyPayloadReplaces ==
    [][(ret'.op = "poll_return" /\ ret'.arg # {}) =>
          /\ ret'.val = "status"
          /\ Derived(status') = DerivedOfPayload(ThePayload(ret'.arg))]_vars

\* C5 amended: whenever the collaborator returns a non-empty payload, poll
\* stores and returns a new snapshot whose derived values are those of the
\* payload alone; an empty payload is handled as no answer.
C5_NonEmptyPayloadReplaces ==
    [][(ret'.op = "poll_return" /\ ret'.arg # {}) =>
          IF ThePayload(ret'.arg) = EmptyDict
          THEN ret'.val = "None" /\ UNCHANGED status
          ELSE /\ ret'.val = "status"
               /\ Derived(status') = DerivedOfPayload(ThePayload(ret'.arg))]_vars

\* C5 witness: a poll has stored a payload that resolves to off with an
\* active error field, after a wake_up had patched the previous snapshot.
C5_Witness ==
    /\ ret.op = "poll_return"
    /\ ret.val = "status"
    /\ ~stand_by
    /\ status.data = ThePayload(ret.arg)
    /\ ResolvedRunState(status.data) = STATE_ROBOT_KING_POWER_OFF
    /\ ResolvedError(status.data) = "ERROR_BRUSH"

\* C6: the stored snapshot reads is_on == True exactly when the run-state its
\* payload store resolves to (POWER_OFF for an absent or falsy lookup) does
\* not contain the POWER_OFF sentinel; with the run-state field absent it
\* reads is_on == False and is_run_completed == True.
C6_IsOnIffNotPowerOff ==
    /\ is_on(status).val <=>
           ~Contains(STATE_ROBOT_KING_POWER_OFF, ResolvedRunState(status.data))
    /\ DOMAIN status.data \cap {"State", "state"} = {} =>
           ~is_on(status).val /\ is_run_completed(status).val

\* C6 witness: is_on has been read as False on a snapshot whose payload has
\* no run-state field.
C6_Witness ==
    /\ ret.op = "is_on"
    /\ ret.val = "False"
    /\ DOMAIN status.data \cap {"State", "state"} = {}
    /\ status.run_state = STATE_ROBOT_KING_POWER_OFF

\* C7: the stored snapshot reads is_run_completed == True exactly when its
\* resolved run-state contains STATE_END, STATE_COMPLETE or the POWER_OFF
\* sentinel; so is_on == False implies is_run_completed == True.
C7_RunCompletedIffTerminalOrOff ==
    LET rs == ResolvedRunState(status.data)
    IN  /\ is_run_completed(status).val <=>
               \/ Contains("STATE_END", rs)
               \/ Contains("STATE_COMPLETE", rs)
               \/ Contains(STATE_ROBOT_KING_POWER_OFF, rs)
        /\ ~is_on(status).val => is_run_completed(status).val

\* C7 witness: is_run_completed has been read as True on a snapshot that is
\* on and whose run-state embeds a terminal sentinel.
C7_Witness ==
    /\ ret.op = "is_run_completed"
    /\ ret.val = "True"
    /\ is_on(status).val
    /\ ResolvedRunState(status.data) = "@RK_STATE_END_W"

ReadOps ==
    {"is_on", "is_run_completed", "is_error", "run_state", "error_msg",
     "_update_features"}

\* C8: between two update_status calls a snapshot looks the run-state up at
\* most once and the error at most once, and no property read changes what
\* run_state or error_msg return.
C8_ReadsMemoized ==
    /\ [](status.nState <= 1 /\ status.nError <= 1)
    /\ [][ret'.op \in ReadOps =>
             /\ run_state(status').val = run_state(status).val
             /\ error_msg(status').val = error_msg(status).val]_vars

\* C8 witness: run_state has been read on a snapshot on which error_msg had
\* been read before, with one lookup of each field made.
C8_Witness ==
    /\ ret.op = "run_state"
    /\ DOMAIN status.features = {"RUN_STATE", "ERROR_MSG"}
    /\ status.features["ERROR_MSG"] = "ERROR_BRUSH"
    /\ status.nState = 1
    /\ status.nError = 1

\* The raw run-state field of a payload store, under each alias it is held
\* under: {} when absent.
RawState(data) ==
    { <<k, data[k]>> : k \in DOMAIN data \cap {"State", "state"} }

\* The step is an update_status that changes the run-state field.
RunStateFieldUpdated ==
    /\ ret'.op = "update_status"
    /\ RawState(status'.data) # RawState(status.data)

\* C9 as stated: after error_msg has been read and the error resolved, an
\* update_status that changes the run-state field makes run_state read the
\* new value and leaves what error_msg returns as it was.
C9_ErrorMsgKept ==
    [][(ret.op = "error_msg" /\ status.error # None /\ RunStateFieldUpdated) =>
          /\ run_state(status').val = DerivedOfPayload(status'.data).run_state
          /\ error_msg(status').val = ret.val]_vars

\* C9 amended: an update_status that changes the run-state field clears the
\* run-state memo, so that run_state reads the new value, and leaves the
\* error memo as it was; error_msg returns what it returned before the
\* update whenever is_on is the same before and after it.
C9_ErrorMemoKept ==
    [][RunStateFieldUpdated =>
          /\ status'.run_state = None
          /\ run_state(status').val = DerivedOfPayload(status'.data).run_state
          /\ status'.error = status.error
          /\ (is_on(status').val = is_on(status).val =>
                 error_msg(status').val = error_msg(status).val)]_vars

\* C9 witness: an update_status has changed the run-state field of a snapshot
\* that is on and on which both features had been read, an active error among
\* them; the run_state feature is the one of the old field.
C9_Witness ==
    /\ ret.op = "update_status"
    /\ ret.val = "True"
    /\ status.error = "ERROR_BRUSH"
    /\ DOMAIN status.features = {"RUN_STATE", "ERROR_MSG"}
    /\ status.features["ERROR_MSG"] = "ERROR_BRUSH"
    /\ status.features["RUN_STATE"] = "STATE_END"
    /\ run_state(status).val = "STATE_INITIAL"
    /\ error_msg(status).val = "ERROR_BRUSH"

\* C10: on a snapshot whose error memo is empty or holds the error its payload
\* resolves to: when that error equals a NO-ERROR sentinel or the OFF sentinel
\* is_error is False and error_msg is NONE; when the snapshot is on with any
\* other error, is_error is True and error_msg is that error.
C10_ErrorByEquality ==
    LET er     == ResolvedError(status.data)
        benign == \/ er \in {"ERROR_NOERROR", "ERROR_NOERROR_TITLE",
                             "No Error", "No_Error"}
                  \/ er = STATE_ROBOT_KING_ERROR_OFF
    IN  status.error \in {None, er} =>
            /\ benign => /\ ~is_error(status).val
                         /\ error_msg(status).val = StateOptions_NONE
            /\ (is_on(status).val /\ ~benign) =>
                         /\ is_error(status).val
                         /\ error_msg(status).val = er

\* C10 witness: error_msg has been read on a snapshot that is on and whose
\* error, OFFLINE, embeds the OFF sentinel without being equal to it.
C10_Witness ==
    /\ ret.op = "error_msg"
    /\ ret.val = "OFFLINE"
    /\ is_on(status).val
    /\ status.error = ResolvedError(status.data)

\* C11: after reset_status, from any controller state, the stored snapshot has
\* no payload and empty memos and reads is_on False, is_run_completed True,
\* is_error False, run_state NONE and error_msg NONE; stand_by is as before.
C11_ResetGivesIdleSnapshot ==
    [][ret'.op = "reset_status" =>
          /\ status'.data = EmptyDict
          /\ status'.run_state = None
          /\ status'.error = None
          /\ Derived(status') =
                 [ is_on            |-> FALSE,
                   is_run_completed |-> TRUE,
                   is_error         |-> FALSE,
                   run_state        |-> StateOptions_NONE,
                   error_msg        |-> StateOptions_NONE ]
          /\ stand_by' = stand_by]_vars

\* C11 witness: reset_status has just replaced the snapshot on a controller
\* that a wake_up had taken out of standby.
C11_Witness ==
    /\ ret.op = "reset_status"
    /\ ~stand_by
    /\ status = RobotKingStatus({})

\* C12: neither the part of poll before its await nor a cancellation at the
\* await touches the stored snapshot or stand_by: a cancelled poll leaves the
\* snapshot the controller had, and no partly applied result is ever stored.
C12_CancelledPollKeepsSnapshot ==
    [][ret'.op \in {"poll_call", "poll_cancel"} =>
          UNCHANGED <<status, stand_by, sent>>]_vars

\* C12 witness: a poll has just been cancelled while the stored snapshot
\* holds a payload and filled memos.
C12_Witness ==
    /\ ret.op = "poll_cancel"
    /\ DOMAIN status.data # {}
    /\ status.run_state # None
    /\ status.error # None

\* C13: when the command collaborator raises during wake_up, the call ends
\* with that failure and is not retried (no command stays in flight for it,
\* none is counted as accepted), stand_by and the stored snapshot are as they
\* were; and stand_by goes from True to False only in the step of a wake_up
\* whose command succeeded.
C13_FailedWakeUpChangesNothing ==
    /\ [][ret'.op = "wake_up_fail" =>
             /\ ret'.val = "CommandError"
             /\ wakePending' = wakePending - 1
             /\ UNCHANGED <<stand_by, status, sent, pollPending>>]_vars
    /\ [][(stand_by /\ ~stand_by') => ret'.op = "wake_up_return"]_vars

\* C13 witness: a wake_up has just failed on a controller that is still in
\* standby, with no other wake_up in flight and a snapshot that reads off.
C13_Witness ==
    /\ ret.op = "wake_up_fail"
    /\ stand_by
    /\ wakePending = 0
    /\ sent = 0
    /\ DOMAIN status.data # {}
    /\ ~is_on(status).val

\* C14: a poll that resumes right after a wake_up has returned, and so was
\* already suspended while the wake_up ran, leaves a stored snapshot that
\* still reads is_on == True.
C14_InFlightPollKeepsOn ==
    [][(ret.op = "wake_up_return" /\ ret'.op = "poll_return") =>
          is_on(status').val]_vars

\* C15: once stand_by is False no step sets it back to True, every wake_up
\* invoked from then on raises InvalidDeviceStatus, and at most one wake_up
\* of a controller ever succeeds.
C15_StandbyClearedOnce ==
    /\ [][~stand_by => ~stand_by']_vars
    /\ [][(~stand_by /\ ret'.op = "wake_up_call") =>
             ret'.val = "InvalidDeviceStatus"]_vars
    /\ [](sent <= 1)

\* C16: a wake_up invoked while another wake_up is suspended in its command
\* dispatch raises InvalidDeviceStatus and puts no second command in flight.
C16_OverlappingWakeUpRaises ==
    [][(ret'.op = "wake_up_call" /\ wakePending > 0) =>
          /\ ret'.val = "InvalidDeviceStatus"
          /\ wakePending' = wakePending]_vars

\* The resolved error e is one of the NO-ERROR sentinels or the OFF sentinel.
Benign(e) ==
    \/ e \in {"ERROR_NOERROR", "ERROR_NOERROR_TITLE", "No Error", "No_Error"}
    \/ e = STATE_ROBOT_KING_ERROR_OFF

\* C17: over the life of one snapshot, under any reads and update_status
\* calls, the error is looked up at most once; once resolved, the error memo
\* is never changed and no further lookup is made, also when the error field
\* itself is patched, and while the snapshot is on is_error and error_msg are
\* those of the first resolved value.
C17_ErrorResolvedOnce ==
    /\ [](status.nError <= 1)
    /\ [][status.error # None =>
             /\ status'.error = status.error
             /\ status'.nError = status.nError]_vars
    /\ []((status.error # None /\ is_on(status).val) =>
             /\ is_error(status).val = ~Benign(status.error)
             /\ error_msg(status).val =
                    IF Benign(status.error) THEN StateOptions_NONE
                    ELSE status.error)

\* C17 witness: error_msg has been read as ERROR_BRUSH, the first resolved
\* error, on a snapshot whose error field has since been patched to the code
\* of ERROR_NOERROR.
C17_Witness ==
    /\ ret.op = "error_msg"
    /\ ret.val = "ERROR_BRUSH"
    /\ status.error = "ERROR_BRUSH"
    /\ ResolvedError(status.data) = "ERROR_NOERROR"
    /\ status.nError = 1

\* C18: after any update_status patches and property reads on one snapshot,
\* the run-state memo is empty or is the run-state the payload store resolves
\* to, and is_on, is_run_completed and run_state read what a new snapshot
\* built from the current payload store reads.
C18_RunStateMemoCoherent ==
    LET fresh == RobotKingStatus({status.data})
    IN  /\ status.run_state \in {None, ResolvedRunState(status.data)}
        /\ is_on(status).val = is_on(fresh).val
        /\ is_run_completed(status).val = is_run_completed(fresh).val
        /\ run_state(status).val = run_state(fresh).val

\* C18 witness: is_on has been read as True from a memo resolved again after
\* a patch: the memo holds STATE_INITIAL while the RUN_STATE feature still
\* holds the STATE_END read before the patch.
C18_Witness ==
    /\ ret.op = "is_on"
    /\ ret.val = "True"
    /\ status.run_state = "STATE_INITIAL"
    /\ "RUN_STATE" \in DOMAIN status.features
    /\ status.features["RUN_STATE"] = "STATE_END"

\* C19: a read of run_state records the value it returns under RUN_STATE, and
\* that value is NONE when the snapshot is off and the resolved run-state
\* otherwise; a read of error_msg records the value it returns under
\* ERROR_MSG; after _update_features both features are recorded and are what
\* run_state and error_msg return.
C19_FeaturesRecorded ==
    /\ [][ret'.op = "run_state" =>
             /\ "RUN_STATE" \in DOMAIN status'.features
             /\ status'.features["RUN_STATE"] = ret'.val
             /\ ret'.val = IF is_on(status).val
                           THEN ResolvedRunState(status.data)
                           ELSE StateOptions_NONE]_vars
    /\ [][ret'.op = "error_msg" =>
             /\ "ERROR_MSG" \in DOMAIN status'.features
             /\ status'.features["ERROR_MSG"] = ret'.val
             /\ ret'.val = error_msg(status).val]_vars
    /\ [][ret'.op = "_update_features" =>
             /\ DOMAIN status'.features = {"RUN_STATE", "ERROR_MSG"}
             /\ status'.features["RUN_STATE"] = run_state(status').val
             /\ status'.features["ERROR_MSG"] = error_msg(status').val]_vars

\* C19 witness: _update_features has run on a snapshot whose run-state is
\* STATE_END and whose error is ERROR_NOERROR: RUN_STATE is STATE_END and
\* ERROR_MSG is NONE.
C19_Witness ==
    /\ ret.op = "_update_features"
    /\ ResolvedRunState(status.data) = "STATE_END"
    /\ ResolvedError(status.data) = "ERROR_NOERROR"
    /\ status.features = [x \in {"RUN_STATE", "ERROR_MSG"} |->
                             IF x = "RUN_STATE" THEN "STATE_END"
                             ELSE StateOptions_NONE]

\* The command a wake_up must dispatch under capability metadata sup: the
\* first of Config/Wakeup, Set/Wakeup, WakeUp/None that sup holds, with no
\* payload value.
WakeUpOrder == <<<<"Config", "Wakeup">>, <<"Set", "Wakeup">>, <<"WakeUp", "None">>>>

ExpectedWakeUpCommands(sup) ==
    { [ctrl |-> WakeUpOrder[i][1], cmd |-> WakeUpOrder[i][2], value |-> "None"] :
        i \in { k \in 1..3 : /\ WakeUpOrder[k] \in sup
                             /\ \A j \in 1..(k - 1) : WakeUpOrder[j] \notin sup } }

\* C20: the command a wake_up dispatches, and the command a successful
\* wake_up has had accepted, is the first candidate of Config/Wakeup,
\* Set/Wakeup, WakeUp/None that the capability metadata supports, with no
\* payload value; no later candidate is chosen while an earlier one is
\* supported.
C20_FirstSupportedWakeUpCommand ==
    [][((ret'.op = "wake_up_call" /\ ret'.val = None)
            \/ ret'.op = "wake_up_return") =>
          /\ ret'.arg = ExpectedWakeUpCommands(supported)
          /\ Cardinality(ret'.arg) = 1]_vars

\* C20 witness: a wake_up has succeeded on a device that supports Set/Wakeup
\* and WakeUp/None but not Config/Wakeup, and the command was Set/Wakeup
\* with no payload value.
C20_Witness ==
    /\ ret.op = "wake_up_return"
    /\ sent = 1
    /\ <<"Config", "Wakeup">> \notin supported
    /\ <<"Set", "Wakeup">> \in supported
    /\ <<"WakeUp", "None">> \in supported
    /\ ret.arg = {[ctrl |-> "Set", cmd |-> "Wakeup", value |-> "None"]}

====
